---- MODULE Spec2Model ----
(***************************************************************************)
(* Cluster-creation orchestrator of yunify-k8s (package app): RunCreate,   *)
(* runCreate, its two provisioning goroutines, bootstrapMaster,            *)
(* generateKubeadmInitCmd, GetKubeJoinFromOutput, applyCNI and the Preset  *)
(* Catalog (package api).                                                  *)
(*                                                                         *)
(* Text that the code parses (the captured bootstrap output) is a sequence *)
(* of one-character strings; every other text is a TLA+ string.            *)
(***************************************************************************)
EXTENDS Integers, Sequences, FiniteSets, TLC

\* ------------------------------------------------------------------ bounds

\* Largest NodeCount a request asks for.
MaxNodes == 3

\* Largest number of pieces a generated remote output is made of.
MaxPieces == 4

\* ------------------------------------------------------- text primitives

\* The Go string a sequence of characters stands for.
RECURSIVE Str(_)
Str(s) ==
    IF s = <<>> THEN "" ELSE Head(s) \o Str(Tail(s))

\* unicode.IsSpace, restricted to the ASCII characters it accepts.
IsSpace(c) ==
    c \in {" ", "\n", "\t", "\r"}

RECURSIVE TrimLeft(_)
TrimLeft(s) ==
    IF s /= <<>> /\ IsSpace(Head(s)) THEN TrimLeft(Tail(s)) ELSE s

RECURSIVE TrimRight(_)
TrimRight(s) ==
    IF s /= <<>> /\ IsSpace(s[Len(s)])
    THEN TrimRight(SubSeq(s, 1, Len(s) - 1))
    ELSE s

\* strings.TrimSpace
TrimSpace(s) ==
    TrimRight(TrimLeft(s))

\* s[i:i+len(sub)] == sub, i a Go (0-based) index
MatchAt(s, sub, i) ==
    /\ i >= 0
    /\ i + Len(sub) <= Len(s)
    /\ SubSeq(s, i + 1, i + Len(sub)) = sub

\* The Go indices at which sub occurs in s.
Occurrences(s, sub) ==
    { i \in 0..Len(s) : MatchAt(s, sub, i) }

\* strings.Index: the first occurrence, -1 when there is none.
FirstIndex(s, sub) ==
    IF Occurrences(s, sub) = {} THEN -1
    ELSE CHOOSE i \in Occurrences(s, sub) : \A j \in Occurrences(s, sub) : i <= j

\* strings.LastIndex: the last occurrence, -1 when there is none.
LastIndex(s, sub) ==
    IF Occurrences(s, sub) = {} THEN -1
    ELSE CHOOSE i \in Occurrences(s, sub) : \A j \in Occurrences(s, sub) : j <= i

\* The Go slice expression s[index:]: a run-time panic when index is out of
\* range, the suffix otherwise.
SliceFrom(s, index) ==
    IF index < 0 \/ index > Len(s)
    THEN [panic |-> TRUE, val |-> <<>>]
    ELSE [panic |-> FALSE, val |-> SubSeq(s, index + 1, Len(s))]

\* The marker "kubeadm join" of GetKubeJoinFromOutput.
Marker ==
    <<"k", "u", "b", "e", "a", "d", "m", " ", "j", "o", "i", "n">>

\* GetKubeJoinFromOutput with strings.Index in place of strings.LastIndex.
GetKubeJoinFirstMarker(output) ==
    LET trimmed == TrimSpace(output)
        index == FirstIndex(trimmed, Marker)
    IN  SliceFrom(trimmed, index)

\* GetKubeJoinFromOutput
GetKubeJoinFromOutput(output) ==
    LET trimmed == TrimSpace(output)
        index == LastIndex(trimmed, Marker)
    IN  SliceFrom(trimmed, index)

\* ------------------------------------------------------------ package api

ErrorK8sVersionNotSupport(version) ==
    "Currently we do not support k8s version " \o version

SSHKeyName ==
    "DO_NOT_REMOVE_K8S_KEY"

CalicoCNI ==
    "calico"

FlannelCNI ==
    "flannel"

RoleMaster ==
    "master"

RoleNode ==
    "node"

KubeconfigFilePath ==
    "/etc/kubernetes/admin.conf"

\* The zero value of ImagesPreset: what a Go map yields for a missing key.
ZeroPreset ==
    [KubernetesVersion |-> "", NodeImageID |-> "", MasterImageID |-> "",
     CNIYamlPath |-> "", CNICmd |-> ""]

\* api.PresetKubernetes after init(). CPU and memory sizes are the same in
\* both presets and are left out.
PresetKubernetes ==
    [v \in {"1.13.1", "1.15.2"} |->
        IF v = "1.13.1"
        THEN [KubernetesVersion |-> "1.13.1", NodeImageID |-> "img-rfubqmqn",
              MasterImageID |-> "img-ybttnmjg", CNIYamlPath |-> "/root/CNI",
              CNICmd |-> "cni.sh"]
        ELSE [KubernetesVersion |-> "1.15.2", NodeImageID |-> "img-kp1kue0l",
              MasterImageID |-> "img-79giiut8", CNIYamlPath |-> "/root/CNI",
              CNICmd |-> "cni.sh"]]

\* The version check with the test inverted.
VersionSupportedInverted(version) ==
    version \notin DOMAIN PresetKubernetes

\* _, ok := api.PresetKubernetes[version]
VersionSupported(version) ==
    version \in DOMAIN PresetKubernetes

\* api.PresetKubernetes[version]
PresetOf(version) ==
    IF version \in DOMAIN PresetKubernetes
    THEN PresetKubernetes[version]
    ELSE ZeroPreset

\* ------------------------------------------------- command construction

tagName(name) ==
    "K8S-Cluster-" \o name

\* generateKubeadmInitCmd with the CNI test before the CIDR test.
generateKubeadmInitCmdCNIFirst(network, version) ==
    IF network.CNIName = CalicoCNI \/ network.CNIName = FlannelCNI
    THEN [cmd |-> "kubeadm init --pod-network-cidr=" \o network.PodNetWorkCIDR
                    \o " --kubernetes-version=v" \o version,
          err |-> ""]
    ELSE IF network.PodNetWorkCIDR = ""
    THEN [cmd |-> "", err |-> "Must specify a network for pod"]
    ELSE [cmd |-> "",
          err |-> "CNI plugin " \o network.CNIName \o " is not supported right now"]

\* generateKubeadmInitCmd without the test of the CNI name.
generateKubeadmInitCmdAnyCNI(network, version) ==
    IF network.PodNetWorkCIDR = ""
    THEN [cmd |-> "", err |-> "Must specify a network for pod"]
    ELSE [cmd |-> "kubeadm init --pod-network-cidr=" \o network.PodNetWorkCIDR
                    \o " --kubernetes-version=v" \o version,
          err |-> ""]

\* generateKubeadmInitCmd; err = "" stands for a nil error.
generateKubeadmInitCmd(network, version) ==
    IF network.PodNetWorkCIDR = ""
    THEN [cmd |-> "", err |-> "Must specify a network for pod"]
    ELSE IF network.CNIName = CalicoCNI \/ network.CNIName = FlannelCNI
    THEN [cmd |-> "kubeadm init --pod-network-cidr=" \o network.PodNetWorkCIDR
                    \o " --kubernetes-version=v" \o version,
          err |-> ""]
    ELSE [cmd |-> "",
          err |-> "CNI plugin " \o network.CNIName \o " is not supported right now"]

\* The command applyCNI runs on the master.
applyCNICmd(cni, CNIYamlPath) ==
    "kubectl --kubeconfig=" \o KubeconfigFilePath \o " apply -f "
        \o CNIYamlPath \o "/" \o cni \o "/"

\* ------------------------------------------------------- collaborators

\* An instance the provisioner hands back (instance.Instance: ID and IP).
Instance(role, k) ==
    [nil |-> FALSE,
     ID |-> "i-" \o role \o "-" \o ToString(k),
     IP |-> "ip-" \o role \o "-" \o ToString(k)]

\* A nil *instance.Instance.
NilInstance ==
    [nil |-> TRUE, ID |-> "", IP |-> ""]

\* Orders in which the provisioner may hand back count instances: the
\* rotations of 1..count, so that the order handed back is not the order of
\* the IDs.
Orders(count) ==
    IF count = 0 THEN { <<>> }
    ELSE { [i \in 1..count |-> ((i + r - 1) % count) + 1] : r \in 0..(count - 1) }

\* What a successful CreateInstances(opt) may return: one instance per
\* requested unit, in an order the provisioner chooses.
CreateInstancesReturns(count, role) ==
    { [i \in 1..count |-> Instance(role, p[i])] : p \in Orders(count) }

\* The error a failed collaborator call returns.
ErrOf(op) ==
    op \o ": failed"

\* What the bootstrap command may print on the master.
BootstrapOutputs ==
    { <<>>,
      <<"o", "k", "\n">>,
      <<"o", "k", "\n">> \o Marker \o <<" ", "A", "\n">>,
      Marker \o <<" ", "A", "\n">> \o Marker \o <<" ", "B", " ">> }

\* ------------------------------------------------------------------ state

VARIABLES
    opt,        \* the api.CreateClusterOption of the run
    tags,       \* cloud: the tags that exist, [name, TagID]
    cloud,      \* cloud: IDs of the instances that exist
    tagged,     \* cloud: [tag, id] pairs set by TagInstances
    pc,         \* position of the calling goroutine in RunCreate/runCreate
    result,     \* what RunCreate returned (or that it panicked)
    tagID,      \* runCreate's tagID
    keyid,      \* runCreate's keyid
    wg,         \* the sync.WaitGroup counter
    pcM,        \* position of the master goroutine
    pcN,        \* position of the node goroutine
    master,     \* runCreate's master
    nodes,      \* runCreate's nodes
    errs,       \* runCreate's errs, shared by both goroutines
    machines,   \* runCreate's machines, shared by both goroutines
    regM,       \* the slice value the master goroutine loaded for its append
    regN,       \* the slice value the node goroutine loaded for its append
    instN,      \* the node goroutine's instances
    iN,         \* the node goroutine's position in "range instances"
    joinCmd,    \* runCreate's joinCmd
    joinIdx,    \* position of "range nodes" in the join loop
    calls,      \* history: cloud and local-file calls made, in order
    remote,     \* history: ssh.QuickConnectAndRun calls made, in order
    fn          \* the pure function under test and its argument and result

vars ==
    <<opt, tags, cloud, tagged, pc, result, tagID, keyid, wg, pcM, pcN, master,
      nodes, errs, machines, regM, regN, instN, iN, joinCmd, joinIdx, calls,
      remote, fn>>

\* The variables of the two provisioning goroutines.
goVars ==
    <<wg, pcM, pcN, master, nodes, errs, machines, regM, regN, instN, iN>>

\* The variables of the cloud.
cloudVars ==
    <<tags, cloud, tagged>>

ClusterNames ==
    {"", "demo"}

Versions ==
    {"1.13.1", "1.15.2", "1.14.0"}

CNINames ==
    {"calico", "flannel", "weave"}

PodCIDRs ==
    {"", "10.244.0.0/16"}

Requests ==
    [ClusterName : ClusterNames,
     KubernetesVersion : Versions,
     NodeCount : 0..MaxNodes,
     CNIName : CNINames,
     PodNetWorkCIDR : PodCIDRs,
     UseExistKey : BOOLEAN,
     ScpKubeConfigToLocal : BOOLEAN]

Running ==
    [status |-> "running", msg |-> "", errs |-> <<>>]

Succeeded ==
    [status |-> "ok", msg |-> "", errs |-> <<>>]

Panicked(msg) ==
    [status |-> "panic", msg |-> msg, errs |-> <<>>]

Failed(msg) ==
    [status |-> "error", msg |-> msg, errs |-> <<>>]

\* fmt.Errorf("Creating Machines failed, errs: %+v", errs)
FailedMachines(es) ==
    [status |-> "error", msg |-> "Creating Machines failed, errs: ", errs |-> es]

NoFn ==
    [name |-> "", in |-> <<>>, done |-> FALSE, out |-> <<>>]

\* The locals of a run before RunCreate has executed anything.
Fresh ==
    /\ result = Running
    /\ tagID = ""
    /\ keyid = ""
    /\ wg = 0
    /\ pcM = "idle"
    /\ pcN = "idle"
    /\ master = NilInstance
    /\ nodes = <<>>
    /\ errs = <<>>
    /\ machines = <<>>
    /\ regM = <<>>
    /\ regN = <<>>
    /\ instN = <<>>
    /\ iN = 1
    /\ joinCmd = <<>>
    /\ joinIdx = 1
    /\ calls = <<>>
    /\ remote = <<>>
    /\ cloud = {}
    /\ tagged = {}

Init ==
    /\ opt \in Requests
    /\ tags \in { {}, {[name |-> tagName(opt.ClusterName), TagID |-> "tag-old"]} }
    /\ pc = "validate"
    /\ fn = NoFn
    /\ Fresh

\* return err: the run ends with an error.
Return(r) ==
    /\ result' = r
    /\ pc' = "done"

\* A call of a cloud or local-file collaborator is recorded with its
\* argument, whether it returned without error and the ID it returned.
CallRet(op, arg, ok, ret) ==
    calls' = Append(calls, [op |-> op, arg |-> arg, ok |-> ok, ret |-> ret])

\* A call whose returned value, if any, is not an ID.
Call(op, arg, ok) ==
    CallRet(op, arg, ok, "")

\* A call ssh.QuickConnectAndRun(host, cmd) is recorded with the step of
\* runCreate that made it, the output it captured and whether it returned
\* without error.
Run(step, host, cmd, out, ok) ==
    remote' = Append(remote, [step |-> step, host |-> host, cmd |-> cmd,
                              out |-> out, ok |-> ok])

\* -------------------------------------------- RunCreate, before the fan-out

\* A validation that lets every name through.
NameMissingNever(name) ==
    FALSE

\* validateCreateInput: if opt.ClusterName == ""
NameMissing(name) ==
    name = ""

\* RunCreate: validateCreateInput(opt).
ValidateCreateInput ==
    /\ pc = "validate"
    /\ IF NameMissing(opt.ClusterName)
       THEN Return(Failed("ClusterName cannot be empty"))
       ELSE /\ pc' = "init"
            /\ UNCHANGED result
    /\ UNCHANGED <<opt, cloudVars, tagID, keyid, goVars, joinCmd, joinIdx, calls,
                   remote, fn>>

\* RunCreate: a.init(opt.Zone), which fails when keyHelper.Init() does.
InitService ==
    /\ pc = "init"
    /\ \E ok \in BOOLEAN :
          /\ Call("accesskey.Init", "", ok)
          /\ IF ok
             THEN /\ pc' = "getTag"
                  /\ UNCHANGED result
             ELSE Return(Failed(ErrOf("accesskey.Init")))
    /\ UNCHANGED <<opt, cloudVars, tagID, keyid, goVars, joinCmd, joinIdx, remote, fn>>

\* What GetTagClusterByName(name) finds in the cloud: the tags of that name
\* (the empty set stands for the nil it returns when there is none).
FindTagByName(ts, name) ==
    { t \in ts : t.name = name }

\* The ID the cloud gives a new tag: one no tag has yet.
NewTagID(ts) ==
    "tag-" \o ToString(Cardinality(ts) + 1)

\* A tag resolution that never reuses the tag it found.
TagFoundNever(id) ==
    FALSE

\* runCreate: if id != nil
TagFound(id) ==
    id /= {}

\* runCreate: a.tagService.GetTagClusterByName(tag).
GetTag ==
    /\ pc = "getTag"
    /\ \E ok \in BOOLEAN :
          LET id == FindTagByName(tags, tagName(opt.ClusterName))
          IN  IF ~ok
              THEN /\ Call("GetTagClusterByName", tagName(opt.ClusterName), FALSE)
                   /\ Return(Failed(ErrOf("GetTagClusterByName")))
                   /\ UNCHANGED tagID
              ELSE /\ CallRet("GetTagClusterByName", tagName(opt.ClusterName), TRUE,
                              IF id = {} THEN "" ELSE (CHOOSE t \in id : TRUE).TagID)
                   /\ UNCHANGED result
                   /\ IF TagFound(id)
                      THEN /\ tagID' = (CHOOSE t \in id : TRUE).TagID
                           /\ pc' = "readKey"
                      ELSE /\ pc' = "createTag"
                           /\ UNCHANGED tagID
    /\ UNCHANGED <<opt, cloudVars, keyid, goVars, joinCmd, joinIdx, remote, fn>>

\* runCreate: a.tagService.CreateTag(tag).
CreateTag ==
    /\ pc = "createTag"
    /\ \E ok \in BOOLEAN :
          /\ CallRet("CreateTag", tagName(opt.ClusterName), ok,
                     IF ok THEN NewTagID(tags) ELSE "")
          /\ IF ok
             THEN /\ tagID' = NewTagID(tags)
                  /\ tags' = tags \cup {[name |-> tagName(opt.ClusterName),
                                         TagID |-> NewTagID(tags)]}
                  /\ pc' = "readKey"
                  /\ UNCHANGED result
             ELSE /\ Return(Failed(ErrOf("CreateTag")))
                  /\ UNCHANGED <<tagID, tags>>
    /\ UNCHANGED <<opt, cloud, tagged, keyid, goVars, joinCmd, joinIdx, remote, fn>>

\* prepareSSHKey: ioutil.ReadFile(ssh.GetDefaultPublicKeyFile()).
ReadPublicKey ==
    /\ pc = "readKey"
    /\ \E ok \in BOOLEAN :
          /\ Call("ReadFile", "id_rsa.pub", ok)
          /\ IF ok
             THEN /\ pc' = IF opt.UseExistKey THEN "getKey" ELSE "createKey"
                  /\ UNCHANGED result
             ELSE Return(Failed(ErrOf("ReadFile")))
    /\ UNCHANGED <<opt, cloudVars, tagID, keyid, goVars, joinCmd, joinIdx, remote, fn>>

\* A lookup result that is never taken as a key.
KeyFoundNever(key) ==
    FALSE

\* prepareSSHKey: if key != ""
KeyFound(key) ==
    key /= ""

\* prepareSSHKey: a.sshKeyIface.GetKeyPairByName(api.SSHKeyName).
GetKeyPair ==
    /\ pc = "getKey"
    /\ \E key \in {"error", "", "kp-old"} :
          /\ CallRet("GetKeyPairByName", SSHKeyName, key /= "error",
                     IF key = "error" THEN "" ELSE key)
          /\ IF key = "error"
             THEN /\ Return(Failed(ErrOf("GetKeyPairByName")))
                  /\ UNCHANGED keyid
             ELSE IF KeyFound(key)
             THEN /\ keyid' = key
                  /\ pc' = "checkVersion"
                  /\ UNCHANGED result
             ELSE /\ pc' = "createKey"
                  /\ UNCHANGED <<keyid, result>>
    /\ UNCHANGED <<opt, cloudVars, tagID, goVars, joinCmd, joinIdx, remote, fn>>

\* prepareSSHKey: a.sshKeyIface.CreateSSHKey(api.SSHKeyName, string(output)).
CreateSSHKey ==
    /\ pc = "createKey"
    /\ \E ok \in BOOLEAN :
          /\ CallRet("CreateSSHKey", SSHKeyName, ok, IF ok THEN "kp-new" ELSE "")
          /\ IF ok
             THEN /\ keyid' = "kp-new"
                  /\ pc' = "checkVersion"
                  /\ UNCHANGED result
             ELSE /\ Return(Failed(ErrOf("CreateSSHKey")))
                  /\ UNCHANGED keyid
    /\ UNCHANGED <<opt, cloudVars, tagID, goVars, joinCmd, joinIdx, remote, fn>>

\* runCreate: if _, ok := api.PresetKubernetes[opt.KubernetesVersion]; !ok.
CheckVersion ==
    /\ pc = "checkVersion"
    /\ IF VersionSupported(opt.KubernetesVersion)
       THEN /\ pc' = "spawnMaster"
            /\ UNCHANGED result
       ELSE Return(Failed(ErrorK8sVersionNotSupport(opt.KubernetesVersion)))
    /\ UNCHANGED <<opt, cloudVars, tagID, keyid, goVars, joinCmd, joinIdx, calls,
                   remote, fn>>

\* ------------------------------------------------------------ the fan-out

\* runCreate's createMasterOpt.
createMasterOpt ==
    [Name |-> opt.ClusterName, Count |-> 1, Role |-> RoleMaster,
     ImagesPreset |-> PresetOf(opt.KubernetesVersion), SSHKeyID |-> keyid]

\* The node goroutine's createNodesOpt.
createNodesOpt ==
    [Name |-> opt.ClusterName, Count |-> opt.NodeCount, Role |-> RoleNode,
     ImagesPreset |-> PresetOf(opt.KubernetesVersion), SSHKeyID |-> keyid]

\* runCreate: wg.Add(1); go func() { ... }() for the master.
SpawnMaster ==
    /\ pc = "spawnMaster"
    /\ wg' = wg + 1
    /\ pcM' = "create"
    /\ pc' = "spawnNodes"
    /\ UNCHANGED <<opt, cloudVars, result, tagID, keyid, pcN, master, nodes, errs,
                   machines, regM, regN, instN, iN, joinCmd, joinIdx, calls,
                   remote, fn>>

\* runCreate: wg.Add(1); go func() { ... }() for the nodes.
SpawnNodes ==
    /\ pc = "spawnNodes"
    /\ wg' = wg + 1
    /\ pcN' = "create"
    /\ pc' = "wait"
    /\ UNCHANGED <<opt, cloudVars, result, tagID, keyid, pcM, master, nodes, errs,
                   machines, regM, regN, instN, iN, joinCmd, joinIdx, calls,
                   remote, fn>>

\* Master goroutine: a.instanceIface.CreateInstances(createMasterOpt), and
\* on success master = instances[0].
MasterCreate ==
    /\ pcM = "create"
    /\ \/ /\ Call("CreateInstances", createMasterOpt, FALSE)
          /\ pcM' = "loadErrs"
          /\ UNCHANGED <<master, cloud>>
       \/ \E instances \in CreateInstancesReturns(createMasterOpt.Count, RoleMaster) :
             /\ Call("CreateInstances", createMasterOpt, TRUE)
             /\ master' = instances[1]
             /\ cloud' = cloud \cup { instances[i].ID : i \in 1..Len(instances) }
             /\ pcM' = "loadMachines"
    /\ UNCHANGED <<opt, tags, tagged, pc, result, tagID, keyid, wg, pcN, nodes,
                   errs, machines, regM, regN, instN, iN, joinCmd, joinIdx,
                   remote, fn>>

\* Master goroutine: errs = append(errs, err), the read of errs.
MasterLoadErrs ==
    /\ pcM = "loadErrs"
    /\ regM' = errs
    /\ pcM' = "storeErrs"
    /\ UNCHANGED <<opt, cloudVars, pc, result, tagID, keyid, wg, pcN, master, nodes,
                   errs, machines, regN, instN, iN, joinCmd, joinIdx, calls,
                   remote, fn>>

\* Master goroutine: errs = append(errs, err), the write of errs; return.
MasterStoreErrs ==
    /\ pcM = "storeErrs"
    /\ errs' = Append(regM, ErrOf("CreateInstances master"))
    /\ pcM' = "exit"
    /\ UNCHANGED <<opt, cloudVars, pc, result, tagID, keyid, wg, pcN, master, nodes,
                   machines, regM, regN, instN, iN, joinCmd, joinIdx, calls,
                   remote, fn>>

\* Master goroutine: machines = append(machines, master.ID), the read.
MasterLoadMachines ==
    /\ pcM = "loadMachines"
    /\ regM' = machines
    /\ pcM' = "storeMachines"
    /\ UNCHANGED <<opt, cloudVars, pc, result, tagID, keyid, wg, pcN, master, nodes,
                   errs, machines, regN, instN, iN, joinCmd, joinIdx, calls,
                   remote, fn>>

\* Master goroutine: machines = append(machines, master.ID), the write.
MasterStoreMachines ==
    /\ pcM = "storeMachines"
    /\ machines' = Append(regM, master.ID)
    /\ pcM' = "exit"
    /\ UNCHANGED <<opt, cloudVars, pc, result, tagID, keyid, wg, pcN, master, nodes,
                   errs, regM, regN, instN, iN, joinCmd, joinIdx, calls, remote, fn>>

\* Master goroutine: the deferred wg.Done().
MasterDone ==
    /\ pcM = "exit"
    /\ wg' = wg - 1
    /\ pcM' = "done"
    /\ UNCHANGED <<opt, cloudVars, pc, result, tagID, keyid, pcN, master, nodes,
                   errs, machines, regM, regN, instN, iN, joinCmd, joinIdx, calls,
                   remote, fn>>

\* Node goroutine: a.instanceIface.CreateInstances(createNodesOpt).
NodeCreate ==
    /\ pcN = "create"
    /\ \/ /\ Call("CreateInstances", createNodesOpt, FALSE)
          /\ pcN' = "loadErrs"
          /\ UNCHANGED <<instN, cloud>>
       \/ \E instances \in CreateInstancesReturns(createNodesOpt.Count, RoleNode) :
             /\ Call("CreateInstances", createNodesOpt, TRUE)
             /\ instN' = instances
             /\ cloud' = cloud \cup { instances[i].ID : i \in 1..Len(instances) }
             /\ pcN' = IF Len(instances) = 0 THEN "exit" ELSE "loadMachines"
    /\ iN' = 1
    /\ UNCHANGED <<opt, tags, tagged, pc, result, tagID, keyid, wg, pcM, master,
                   nodes, errs, machines, regM, regN, joinCmd, joinIdx, remote, fn>>

\* Node goroutine: errs = append(errs, err), the read of errs.
NodeLoadErrs ==
    /\ pcN = "loadErrs"
    /\ regN' = errs
    /\ pcN' = "storeErrs"
    /\ UNCHANGED <<opt, cloudVars, pc, result, tagID, keyid, wg, pcM, master, nodes,
                   errs, machines, regM, instN, iN, joinCmd, joinIdx, calls,
                   remote, fn>>

\* Node goroutine: errs = append(errs, err), the write of errs; return.
NodeStoreErrs ==
    /\ pcN = "storeErrs"
    /\ errs' = Append(regN, ErrOf("CreateInstances nodes"))
    /\ pcN' = "exit"
    /\ UNCHANGED <<opt, cloudVars, pc, result, tagID, keyid, wg, pcM, master, nodes,
                   machines, regM, regN, instN, iN, joinCmd, joinIdx, calls,
                   remote, fn>>

\* Node goroutine, "for _, machine := range instances":
\* machines = append(machines, machine.ID), the read.
NodeLoadMachines ==
    /\ pcN = "loadMachines"
    /\ regN' = machines
    /\ pcN' = "storeMachines"
    /\ UNCHANGED <<opt, cloudVars, pc, result, tagID, keyid, wg, pcM, master, nodes,
                   errs, machines, regM, instN, iN, joinCmd, joinIdx, calls,
                   remote, fn>>

\* Node goroutine: machines = append(machines, machine.ID), the write;
\* nodes = append(nodes, machine); next machine.
NodeStoreMachines ==
    /\ pcN = "storeMachines"
    /\ machines' = Append(regN, instN[iN].ID)
    /\ nodes' = Append(nodes, instN[iN])
    /\ iN' = iN + 1
    /\ pcN' = IF iN < Len(instN) THEN "loadMachines" ELSE "exit"
    /\ UNCHANGED <<opt, cloudVars, pc, result, tagID, keyid, wg, pcM, master, errs,
                   regM, regN, instN, joinCmd, joinIdx, calls, remote, fn>>

\* Node goroutine: the deferred wg.Done().
NodeDone ==
    /\ pcN = "exit"
    /\ wg' = wg - 1
    /\ pcN' = "done"
    /\ UNCHANGED <<opt, cloudVars, pc, result, tagID, keyid, pcM, master, nodes,
                   errs, machines, regM, regN, instN, iN, joinCmd, joinIdx, calls,
                   remote, fn>>

\* ------------------------------------------- runCreate, after the fan-out

\* A test of errs that never sees an error.
HasErrsNever(es) ==
    FALSE

\* len(errs) != 0 read as "every provisioning call failed".
HasErrsBoth(es) ==
    Len(es) = 2

\* runCreate: len(errs) != 0
HasErrs(es) ==
    Len(es) /= 0

\* A barrier that opens as soon as one goroutine has signalled.
BarrierOpenEarly(w) ==
    w <= 1

\* wg.Wait() returns when the counter is zero.
BarrierOpen(w) ==
    w = 0

\* A barrier exit that deletes the created instances when provisioning failed.
WaitRollback ==
    /\ pc = "wait"
    /\ BarrierOpen(wg)
    /\ IF HasErrs(errs)
       THEN /\ Return(FailedMachines(errs))
            /\ cloud' = {}
       ELSE /\ pc' = "tag"
            /\ UNCHANGED <<result, cloud>>
    /\ UNCHANGED <<opt, tags, tagged, tagID, keyid, goVars, joinCmd, joinIdx, calls,
                   remote, fn>>

\* runCreate: wg.Wait(), then the test of errs.
Wait ==
    /\ pc = "wait"
    /\ BarrierOpen(wg)
    /\ IF HasErrs(errs)
       THEN Return(FailedMachines(errs))
       ELSE /\ pc' = "tag"
            /\ UNCHANGED result
    /\ UNCHANGED <<opt, cloudVars, tagID, keyid, goVars, joinCmd, joinIdx, calls,
                   remote, fn>>

\* runCreate: a.tagService.TagInstances(tagID, machines).
TagInstances ==
    /\ pc = "tag"
    /\ \E ok \in BOOLEAN :
          /\ Call("TagInstances", [tagID |-> tagID, machines |-> machines], ok)
          /\ IF ok
             THEN /\ tagged' = tagged \cup
                        { [tag |-> tagID, id |-> machines[i]] : i \in 1..Len(machines) }
                  /\ pc' = "bootstrap"
                  /\ UNCHANGED result
             ELSE /\ Return(Failed(ErrOf("TagInstances")))
                  /\ UNCHANGED tagged
    /\ UNCHANGED <<opt, tags, cloud, tagID, keyid, goVars, joinCmd, joinIdx, remote, fn>>

\* opt.NetworkOption
NetworkOption ==
    [CNIName |-> opt.CNIName, PodNetWorkCIDR |-> opt.PodNetWorkCIDR]

\* runCreate: bootstrapMaster(master, opt).
BootstrapMaster ==
    /\ pc = "bootstrap"
    /\ LET gen == generateKubeadmInitCmd(NetworkOption, opt.KubernetesVersion)
       IN  IF gen.err /= ""
           THEN /\ Return(Failed(gen.err))
                /\ UNCHANGED <<remote, joinCmd>>
           ELSE IF master.nil
           THEN /\ Return(Panicked("nil pointer dereference"))
                /\ UNCHANGED <<remote, joinCmd>>
           ELSE \/ /\ Run("bootstrap", master.IP, "swapoff -a;" \o gen.cmd, <<>>, FALSE)
                   /\ Return(Failed(ErrOf("kubeadm init")))
                   /\ UNCHANGED joinCmd
                \/ \E output \in BootstrapOutputs :
                      /\ Run("bootstrap", master.IP, "swapoff -a;" \o gen.cmd, output, TRUE)
                      /\ LET join == GetKubeJoinFromOutput(output)
                         IN  IF join.panic
                             THEN /\ Return(Panicked("slice bounds out of range"))
                                  /\ UNCHANGED joinCmd
                             ELSE /\ joinCmd' = join.val
                                  /\ pc' = "cni"
                                  /\ UNCHANGED result
    /\ UNCHANGED <<opt, cloudVars, tagID, keyid, goVars, joinIdx, calls, fn>>

\* A run that goes on to the joins after a failed CNI apply.
CNIFailedIgnored ==
    /\ pc' = "join"
    /\ UNCHANGED result

\* runCreate, after applyCNI: if err != nil { return err }
CNIFailed ==
    Return(Failed(ErrOf("apply CNI")))

\* runCreate: applyCNI(opt.CNIName, createMasterOpt.CNIYamlPath, master.IP).
ApplyCNI ==
    /\ pc = "cni"
    /\ \E ok \in BOOLEAN :
          /\ Run("cni", master.IP,
                 applyCNICmd(opt.CNIName, createMasterOpt.ImagesPreset.CNIYamlPath),
                 <<>>, ok)
          /\ IF ok
             THEN /\ pc' = "join"
                  /\ UNCHANGED result
             ELSE CNIFailed
    /\ UNCHANGED <<opt, cloudVars, tagID, keyid, goVars, joinCmd, joinIdx, calls, fn>>

\* A join loop that goes on after a failed join.
JoinFailedContinue(node) ==
    /\ joinIdx' = joinIdx + 1
    /\ UNCHANGED <<pc, result>>

\* A join loop that tries a failed join again.
JoinFailedRetry(node) ==
    UNCHANGED <<pc, result, joinIdx>>

\* runCreate, join loop: if err != nil { return err }
JoinFailed(node) ==
    /\ Return(Failed(ErrOf("join " \o node.ID)))
    /\ UNCHANGED joinIdx

\* runCreate, join loop: the node of this iteration of "range nodes".
JoinTarget(ns, idx) ==
    ns[idx]

\* runCreate, one iteration of "for _, node := range nodes".
JoinNode ==
    /\ pc = "join"
    /\ joinIdx <= Len(nodes)
    /\ LET node == JoinTarget(nodes, joinIdx)
       IN  \/ /\ Run("join", node.IP, "swapoff -a; " \o Str(joinCmd), <<>>, FALSE)
              /\ JoinFailed(node)
           \/ /\ Run("join", node.IP, "swapoff -a; " \o Str(joinCmd), <<>>, TRUE)
              /\ joinIdx' = joinIdx + 1
              /\ UNCHANGED <<pc, result>>
    /\ UNCHANGED <<opt, cloudVars, tagID, keyid, goVars, joinCmd, calls, fn>>

\* An export that does not look at the request.
ExportRequestedAlways(o) ==
    TRUE

\* runCreate: if opt.ScpKubeConfigToLocal
ExportRequested(o) ==
    o.ScpKubeConfigToLocal

\* runCreate: the join loop is over; if opt.ScpKubeConfigToLocal, go on to
\* the export, else return nil.
JoinDone ==
    /\ pc = "join"
    /\ joinIdx > Len(nodes)
    /\ IF ExportRequested(opt)
       THEN /\ pc' = "export"
            /\ UNCHANGED result
       ELSE Return(Succeeded)
    /\ UNCHANGED <<opt, cloudVars, tagID, keyid, goVars, joinCmd, joinIdx, calls,
                   remote, fn>>

\* runCreate: transferKubeconfigToLocal(master.IP, opt.LocalKubeConfigPath).
TransferKubeconfig ==
    /\ pc = "export"
    /\ \/ /\ Run("export", master.IP, "cat " \o KubeconfigFilePath, <<>>, FALSE)
          /\ Return(Failed(ErrOf("cat admin.conf")))
          /\ UNCHANGED calls
       \/ /\ Run("export", master.IP, "cat " \o KubeconfigFilePath, <<>>, TRUE)
          /\ \E ok \in BOOLEAN :
                /\ Call("WriteFile", "kubeconfig", ok)
                /\ IF ok THEN Return(Succeeded) ELSE Return(Failed(ErrOf("WriteFile")))
    /\ UNCHANGED <<opt, cloudVars, tagID, keyid, goVars, joinCmd, joinIdx, fn>>

Next ==
    \/ ValidateCreateInput
    \/ InitService
    \/ GetTag
    \/ CreateTag
    \/ ReadPublicKey
    \/ GetKeyPair
    \/ CreateSSHKey
    \/ CheckVersion
    \/ SpawnMaster
    \/ SpawnNodes
    \/ MasterCreate
    \/ MasterLoadErrs
    \/ MasterStoreErrs
    \/ MasterLoadMachines
    \/ MasterStoreMachines
    \/ MasterDone
    \/ NodeCreate
    \/ NodeLoadErrs
    \/ NodeStoreErrs
    \/ NodeLoadMachines
    \/ NodeStoreMachines
    \/ NodeDone
    \/ Wait
    \/ TagInstances
    \/ BootstrapMaster
    \/ ApplyCNI
    \/ JoinNode
    \/ JoinDone
    \/ TransferKubeconfig

Spec ==
    Init /\ [][Next]_vars

\* ------------------------------------- the pure functions on their own

\* The pieces remote outputs are put together from.
Pieces ==
    { Marker, <<" ">>, <<"\n">>, <<"x">>,
      <<"k", "u", "b", "e", "a", "d", "m">>, <<" ", "j", "o", "i", "n">> }

\* The outputs made of at most n pieces.
RECURSIVE Texts(_)
Texts(n) ==
    IF n = 0 THEN { <<>> }
    ELSE Texts(n - 1) \cup { p \o t : p \in Pieces, t \in Texts(n - 1) }

\* No run of RunCreate is in progress: only fn changes.
NoRun ==
    /\ opt = [ClusterName |-> "", KubernetesVersion |-> "", NodeCount |-> 0,
              CNIName |-> "", PodNetWorkCIDR |-> "", UseExistKey |-> FALSE,
              ScpKubeConfigToLocal |-> FALSE]
    /\ tags = {}
    /\ pc = "off"
    /\ Fresh

runVars ==
    <<opt, tags, cloud, tagged, pc, result, tagID, keyid, wg, pcM, pcN, master,
      nodes, errs, machines, regM, regN, instN, iN, joinCmd, joinIdx, calls,
      remote>>

InitJoin ==
    /\ NoRun
    /\ fn \in { [name |-> "GetKubeJoinFromOutput", in |-> o, done |-> FALSE,
                 out |-> [panic |-> FALSE, val |-> <<>>]] : o \in Texts(MaxPieces) }

\* A call GetKubeJoinFromOutput(fn.in).
ExtractJoin ==
    /\ fn.name = "GetKubeJoinFromOutput"
    /\ ~fn.done
    /\ fn' = [fn EXCEPT !.done = TRUE, !.out = GetKubeJoinFromOutput(fn.in)]
    /\ UNCHANGED runVars

NextJoin ==
    ExtractJoin

SpecJoin ==
    InitJoin /\ [][NextJoin]_vars

InitCmdInputs ==
    [CNIName : {"calico", "flannel", "weave", "Calico", ""},
     PodNetWorkCIDR : {"", "10.244.0.0/16", "192.168.0.0/16"},
     version : {"1.13.1", "1.15.2", "1.14.0", ""}]

InitInitCmd ==
    /\ NoRun
    /\ fn \in { [name |-> "generateKubeadmInitCmd", in |-> i, done |-> FALSE,
                 out |-> [cmd |-> "", err |-> ""]] : i \in InitCmdInputs }

\* A call generateKubeadmInitCmd(opt, version) on the input fn.in.
GenerateInitCmd ==
    /\ fn.name = "generateKubeadmInitCmd"
    /\ ~fn.done
    /\ fn' = [fn EXCEPT !.done = TRUE,
                        !.out = generateKubeadmInitCmd(
                                    [CNIName |-> fn.in.CNIName,
                                     PodNetWorkCIDR |-> fn.in.PodNetWorkCIDR],
                                    fn.in.version)]
    /\ UNCHANGED runVars

NextInitCmd ==
    GenerateInitCmd

SpecInitCmd ==
    InitInitCmd /\ [][NextInitCmd]_vars

\* ------------------------------------------- tag resolution, run twice

\* Tag resolution (runCreate up to its "Prepare ssh key") is about to run
\* for a named cluster; the cloud may hold that cluster's tag and the tag of
\* another cluster. fn keeps the tag ID of the first resolution.
InitTag ==
    /\ opt \in { r \in Requests : r.ClusterName /= "" }
    /\ tags \in SUBSET { [name |-> tagName(opt.ClusterName), TagID |-> "tag-old"],
                         [name |-> tagName("other"), TagID |-> "tag-other"] }
    /\ pc = "getTag"
    /\ fn = [name |-> "tagResolution", in |-> opt.ClusterName, done |-> FALSE,
             out |-> ""]
    /\ Fresh

\* A second RunCreate for the same cluster name gets to its tag resolution:
\* its tagID starts empty, the cloud is as the first run left it.
ResolveAgain ==
    /\ fn.name = "tagResolution"
    /\ ~fn.done
    /\ pc = "readKey"
    /\ fn' = [fn EXCEPT !.done = TRUE, !.out = tagID]
    /\ tagID' = ""
    /\ pc' = "getTag"
    /\ UNCHANGED <<opt, cloudVars, result, keyid, goVars, joinCmd, joinIdx, calls,
                   remote>>

NextTag ==
    \/ GetTag
    \/ CreateTag
    \/ ResolveAgain

SpecTag ==
    InitTag /\ [][NextTag]_vars

\* ------------------------------------------------------------ properties

\* Positions in calls of the calls of one collaborator operation.
CallsOf(op) ==
    { i \in 1..Len(calls) : calls[i].op = op }

\* The ssh.QuickConnectAndRun calls of the join loop, in order.
Joins ==
    SelectSeq(remote, LAMBDA r : r.step = "join")

\* The run is at or after the barrier's fan-out and before its release.
InFanOut ==
    pc \in {"spawnNodes", "wait"}

\* C1: once a CreateInstances call has returned an error, the run never
\* leaves the fan-out except by returning the "Creating Machines failed"
\* error: TagInstances is never called and no remote command (bootstrap,
\* CNI apply, join) is ever run, whatever the other call returned.
ProvisioningErrorStopsRun ==
    (\E i \in CallsOf("CreateInstances") : ~calls[i].ok)
        => /\ CallsOf("TagInstances") = {}
           /\ remote = <<>>
           /\ InFanOut \/ pc = "done"
           /\ pc = "done" => /\ result.status = "error"
                             /\ result.msg = "Creating Machines failed, errs: "

\* C1 witness: the run has returned the error after the master call
\* succeeded and the node call failed.
ProvisioningErrorStopsRunWitness ==
    /\ pc = "done"
    /\ result.status = "error"
    /\ ~master.nil
    /\ \E i \in CallsOf("CreateInstances") :
          ~calls[i].ok /\ calls[i].arg.Role = RoleNode
    /\ \E i \in CallsOf("CreateInstances") :
          calls[i].ok /\ calls[i].arg.Role = RoleMaster

\* C2: the list handed to TagInstances holds the master's ID and the ID of
\* every node the node call returned, 1 + NodeCount IDs in all.
TagInstancesGetsEveryMachine ==
    \A i \in CallsOf("TagInstances") :
        LET ms == calls[i].arg.machines
        IN  /\ Len(ms) = 1 + opt.NodeCount
            /\ \E k \in 1..Len(ms) : ms[k] = master.ID
            /\ \A n \in 1..Len(instN) : \E k \in 1..Len(ms) : ms[k] = instN[n].ID

\* C3: when both CreateInstances calls failed, the error the run returns
\* carries both errors.
ProvisioningFailedCarriesBothErrors ==
    (/\ pc = "done"
     /\ Cardinality({ i \in CallsOf("CreateInstances") : ~calls[i].ok }) = 2)
        => Len(result.errs) = 2

\* C4: the joins run on the nodes in the order the node call returned them,
\* each node at most once; only the last join made can have failed, and
\* when it has, the run has returned that node's join error.
JoinsInProvisioningOrder ==
    /\ Len(Joins) <= Len(instN)
    /\ \A k \in 1..Len(Joins) : Joins[k].host = instN[k].IP
    /\ \A k \in 1..(Len(Joins) - 1) : Joins[k].ok
    /\ (Len(Joins) > 0 /\ ~Joins[Len(Joins)].ok)
          => /\ pc = "done"
             /\ result = Failed(ErrOf("join " \o instN[Len(Joins)].ID))

\* C4 witness: of three nodes, the first has joined, the join of the second
\* failed and the run is over.
JoinsInProvisioningOrderWitness ==
    /\ Len(instN) = 3
    /\ Len(Joins) = 2
    /\ Joins[1].ok
    /\ ~Joins[2].ok
    /\ pc = "done"

\* C5: a bootstrap output without the marker ends the run with an error
\* (an explicit extraction failure) before any join: no panic, no join
\* directive.
NoMarkerIsExtractionFailure ==
    \A i \in 1..Len(remote) :
        (/\ remote[i].step = "bootstrap"
         /\ remote[i].ok
         /\ Occurrences(remote[i].out, Marker) = {})
            => /\ pc = "done"
               /\ result.status = "error"
               /\ joinCmd = <<>>
               /\ Joins = <<>>

\* C6: for an output that holds the marker, the result is the part of the
\* output from the last occurrence of the marker up to the last character
\* that is not white space; the marker occurs in it at its start only.
JoinIsSuffixFromLastMarker ==
    (fn.done /\ Occurrences(fn.in, Marker) /= {})
        => /\ ~fn.out.panic
           /\ \E i \in 0..Len(fn.in), j \in 0..Len(fn.in) :
                 /\ MatchAt(fn.in, Marker, i)
                 /\ \A k \in (i + 1)..Len(fn.in) : ~MatchAt(fn.in, Marker, k)
                 /\ \A k \in (j + 1)..Len(fn.in) : IsSpace(fn.in[k])
                 /\ j > 0 /\ ~IsSpace(fn.in[j])
                 /\ fn.out.val = SubSeq(fn.in, i + 1, j)
           /\ Occurrences(fn.out.val, Marker) = {0}
           /\ ~IsSpace(fn.out.val[1])
           /\ ~IsSpace(fn.out.val[Len(fn.out.val)])

\* C6 witness: an output with two markers and white space at both ends
\* has been through the extraction.
JoinIsSuffixFromLastMarkerWitness ==
    /\ fn.done
    /\ Cardinality(Occurrences(fn.in, Marker)) = 2
    /\ IsSpace(fn.in[1])
    /\ IsSpace(fn.in[Len(fn.in)])
    /\ ~fn.out.panic
    /\ fn.out.val /= <<>>

\* C7: for a named cluster with a version outside the catalog no tag and no
\* SSH key is looked up or created, and once the cloud session is up the
\* run ends with the unsupported-version error.
VersionValidatedBeforeSideEffects ==
    (opt.ClusterName /= "" /\ opt.KubernetesVersion \notin {"1.13.1", "1.15.2"})
        => /\ \A i \in 1..Len(calls) :
                 calls[i].op \notin {"GetTagClusterByName", "CreateTag",
                                     "GetKeyPairByName", "CreateSSHKey"}
           /\ (pc = "done" /\ \E i \in CallsOf("accesskey.Init") : calls[i].ok)
                 => result = Failed("Currently we do not support k8s version "
                                        \o opt.KubernetesVersion)

\* The run has executed the version check (it follows the SSH key step).
PastVersionCheck ==
    keyid /= "" /\ pc /= "checkVersion"

\* C8: with a version outside the catalog CreateInstances is never called
\* and a run that got to the version check has returned the
\* unsupported-version error; with a version of the catalog the check
\* passes into the fan-out and every CreateInstances call carries the
\* preset stored under that version.
VersionCheckGatesProvisioning ==
    /\ opt.KubernetesVersion \notin {"1.13.1", "1.15.2"}
          => /\ CallsOf("CreateInstances") = {}
             /\ PastVersionCheck
                   => /\ pc = "done"
                      /\ result = Failed("Currently we do not support k8s version "
                                             \o opt.KubernetesVersion)
    /\ opt.KubernetesVersion \in {"1.13.1", "1.15.2"}
          => /\ result.msg /= "Currently we do not support k8s version "
                                  \o opt.KubernetesVersion
             /\ PastVersionCheck => pcM /= "idle" \/ pc = "spawnMaster"
             /\ \A i \in CallsOf("CreateInstances") :
                   /\ calls[i].arg.ImagesPreset = PresetKubernetes[opt.KubernetesVersion]
                   /\ calls[i].arg.ImagesPreset.KubernetesVersion = opt.KubernetesVersion
                   /\ opt.KubernetesVersion = "1.13.1"
                         => calls[i].arg.ImagesPreset.MasterImageID = "img-ybttnmjg"

\* C8 witness: a run with version 1.14.0 got to the version check and
\* returned the unsupported-version error.
VersionCheckGatesProvisioningWitness ==
    /\ opt.KubernetesVersion = "1.14.0"
    /\ PastVersionCheck
    /\ pc = "done"
    /\ result.msg = "Currently we do not support k8s version 1.14.0"

\* C9: generateKubeadmInitCmd agrees with the reference: an empty pod CIDR
\* gives the missing-CIDR error whatever the CNI name; otherwise calico and
\* flannel give the kubeadm init command for that CIDR and version;
\* otherwise the unsupported-CNI error.
InitCmdMatchesReference ==
    fn.done
        => /\ fn.in.PodNetWorkCIDR = ""
                 => fn.out = [cmd |-> "", err |-> "Must specify a network for pod"]
           /\ (fn.in.PodNetWorkCIDR /= "" /\ fn.in.CNIName \in {"calico", "flannel"})
                 => fn.out = [cmd |-> "kubeadm init --pod-network-cidr="
                                          \o fn.in.PodNetWorkCIDR
                                          \o " --kubernetes-version=v"
                                          \o fn.in.version,
                              err |-> ""]
           /\ (fn.in.PodNetWorkCIDR /= "" /\ fn.in.CNIName \notin {"calico", "flannel"})
                 => fn.out = [cmd |-> "",
                              err |-> "CNI plugin " \o fn.in.CNIName
                                          \o " is not supported right now"]

\* C9 witness: calico, 10.244.0.0/16 and 1.15.2 gave the command of the
\* spec's example.
InitCmdMatchesReferenceWitness ==
    /\ fn.done
    /\ fn.in = [CNIName |-> "calico", PodNetWorkCIDR |-> "10.244.0.0/16",
                version |-> "1.15.2"]
    /\ fn.out.cmd =
          "kubeadm init --pod-network-cidr=10.244.0.0/16 --kubernetes-version=v1.15.2"

\* C10: with an empty pod CIDR or a CNI name other than calico and flannel
\* no remote command is ever run and the run does not end in success.
BadNetworkRunsNothingRemote ==
    (opt.PodNetWorkCIDR = "" \/ opt.CNIName \notin {"calico", "flannel"})
        => /\ remote = <<>>
           /\ pc = "done" => result.status = "error"

\* C10 witness: a run with CNI name weave got through tagging and ended at
\* the bootstrap with the unsupported-CNI error.
BadNetworkRunsNothingRemoteWitness ==
    /\ opt.CNIName = "weave"
    /\ opt.PodNetWorkCIDR /= ""
    /\ \E i \in CallsOf("TagInstances") : calls[i].ok
    /\ pc = "done"
    /\ result = Failed("CNI plugin weave is not supported right now")

\* The tags of the run's cluster that exist in the cloud.
ClusterTags ==
    { t \in tags : t.name = "K8S-Cluster-" \o opt.ClusterName }

\* C11: a lookup that found the cluster's tag is never followed by a
\* CreateTag and its ID is the one the resolution ends with; with the tag
\* there from the start CreateTag is never called; over two resolutions in
\* a row at most one tag is created, the second resolution ends with the
\* tag ID of the first, and exactly one tag of that name exists.
TagResolutionIdempotent ==
    /\ \A i \in CallsOf("GetTagClusterByName") :
          (calls[i].ok /\ calls[i].ret /= "")
             => /\ i < Len(calls) => calls[i + 1].op /= "CreateTag"
                /\ (i = Len(calls) /\ pc = "readKey") => tagID = calls[i].ret
    /\ (\E t \in ClusterTags : t.TagID = "tag-old") => CallsOf("CreateTag") = {}
    /\ Cardinality({ i \in CallsOf("CreateTag") : calls[i].ok }) <= 1
    /\ (fn.done /\ pc = "readKey")
          => /\ tagID = fn.out
             /\ Cardinality(ClusterTags) = 1

\* C11 witness: the first resolution created the tag, the second one has
\* ended too, and another cluster's tag is in the cloud.
TagResolutionIdempotentWitness ==
    /\ fn.done
    /\ pc = "readKey"
    /\ \E i \in CallsOf("CreateTag") : calls[i].ok
    /\ Cardinality(CallsOf("GetTagClusterByName")) = 2
    /\ Cardinality(tags) = 2

\* The run got to the fan-out and wg.Wait() has returned.
BarrierReleased ==
    pcM /= "idle" /\ pc \notin {"spawnNodes", "wait"}

\* The CreateInstances calls made for one role.
CreatesOf(role) ==
    { i \in CallsOf("CreateInstances") : calls[i].arg.Role = role }

\* C12: when the barrier has been released, CreateInstances has been called
\* once for the master with count 1 and once for the nodes with count
\* NodeCount, and both goroutines have run to their end, whatever each of
\* the two calls returned.
BothProvisioningCallsComplete ==
    BarrierReleased
        => /\ Cardinality(CreatesOf("master")) = 1
           /\ Cardinality(CreatesOf("node")) = 1
           /\ \A i \in CreatesOf("master") : calls[i].arg.Count = 1
           /\ \A i \in CreatesOf("node") : calls[i].arg.Count = opt.NodeCount
           /\ pcM = "done"
           /\ pcN = "done"

\* C12 witness: the barrier has been released after the master call failed
\* first and the node call then returned its three nodes.
BothProvisioningCallsCompleteWitness ==
    /\ BarrierReleased
    /\ \E i \in CreatesOf("master"), j \in CreatesOf("node") :
          i < j /\ ~calls[i].ok /\ calls[j].ok
    /\ Len(nodes) = 3

\* C13: the remote commands start with the bootstrap, run only after a
\* successful TagInstances; the CNI apply is the second, after a bootstrap
\* that ran and gave a join command; joins come only after a successful CNI
\* apply; a failed TagInstances, bootstrap or CNI apply is the last thing
\* the run does and the run has returned its error.
BringUpStepsGated ==
    /\ remote /= <<>> => \E i \in CallsOf("TagInstances") : calls[i].ok
    /\ \A i \in 1..Len(remote) :
          /\ remote[i].step = "bootstrap" <=> i = 1
          /\ remote[i].step = "cni"
                => i = 2 /\ remote[1].ok /\ joinCmd /= <<>>
          /\ remote[i].step = "join"
                => i >= 3 /\ remote[2].step = "cni" /\ remote[2].ok
          /\ (remote[i].step = "bootstrap" /\ ~remote[i].ok)
                => /\ i = Len(remote)
                   /\ pc = "done"
                   /\ result = Failed("kubeadm init: failed")
          /\ (remote[i].step = "cni" /\ ~remote[i].ok)
                => /\ i = Len(remote)
                   /\ pc = "done"
                   /\ result = Failed("apply CNI: failed")
    /\ \A i \in CallsOf("TagInstances") :
          ~calls[i].ok => /\ remote = <<>>
                          /\ i = Len(calls)
                          /\ pc = "done"
                          /\ result = Failed("TagInstances: failed")

\* C13 witness: tagging and bootstrap succeeded, the CNI apply failed and
\* the run is over with nodes left to join.
BringUpStepsGatedWitness ==
    /\ Len(remote) = 2
    /\ remote[1].ok
    /\ ~remote[2].ok
    /\ Len(nodes) > 0
    /\ pc = "done"

\* Positions in remote of the reads of the admin credential.
Exports ==
    { i \in 1..Len(remote) : remote[i].step = "export" }

\* Every node the node call returned has been joined successfully.
AllNodesJoined ==
    /\ Len(Joins) = Len(instN)
    /\ \A k \in 1..Len(Joins) : Joins[k].ok /\ Joins[k].host = instN[k].IP

\* C14: the credential is read at most once, only on request, after the CNI
\* apply and the join of every node succeeded, as the last remote command;
\* without the request it is never read and a run that joined every node
\* ends in success; a failed read or a failed write of the local file ends
\* the run with an error, the nodes still all joined.
ExportOnlyAfterAllJoins ==
    /\ Cardinality(Exports) <= 1
    /\ \A i \in Exports :
          /\ opt.ScpKubeConfigToLocal
          /\ i = Len(remote)
          /\ remote[2].step = "cni" /\ remote[2].ok
          /\ AllNodesJoined
          /\ ~remote[i].ok => pc = "done" /\ result.status = "error"
    /\ (\E i \in CallsOf("WriteFile") : ~calls[i].ok)
          => pc = "done" /\ result.status = "error" /\ AllNodesJoined
    /\ ~opt.ScpKubeConfigToLocal
          => /\ Exports = {}
             /\ CallsOf("WriteFile") = {}
             /\ (pc = "done" /\ Len(remote) >= 2 /\ remote[2].ok /\ AllNodesJoined)
                   => result = [status |-> "ok", msg |-> "", errs |-> <<>>]

\* C14 witness: the export was asked for, three nodes joined, the read of
\* the credential failed and the run is over.
ExportOnlyAfterAllJoinsWitness ==
    /\ Exports /= {}
    /\ ~remote[Len(remote)].ok
    /\ Len(Joins) = 3
    /\ pc = "done"

\* C15: with an empty ClusterName nothing but the validation ever runs: no
\* cloud session, no tag, key, instance or file call, no remote command, no
\* change in the cloud; the run ends with the empty-name error.
EmptyNameTouchesNothing ==
    opt.ClusterName = ""
        => /\ calls = <<>>
           /\ remote = <<>>
           /\ cloud = {}
           /\ tagged = {}
           /\ \A t \in tags : t.TagID = "tag-old"
           /\ tagID = "" /\ keyid = ""
           /\ pcM = "idle" /\ pcN = "idle"
           /\ pc \in {"validate", "done"}
           /\ pc = "done" => result = Failed("ClusterName cannot be empty")

\* C15 witness: a run with an empty ClusterName has returned its error.
EmptyNameTouchesNothingWitness ==
    /\ opt.ClusterName = ""
    /\ pc = "done"
    /\ result.status = "error"

\* C16: every collaborator operation is called at most once in a run
\* (CreateInstances once per role, the join command once per node); a
\* failed call other than CreateInstances is the last call of the run, which
\* has returned an error; after a failed CreateInstances only the other
\* CreateInstances call can follow and the run does not end in success.
NothingRetried ==
    /\ \A op \in {"accesskey.Init", "GetTagClusterByName", "CreateTag", "ReadFile",
                  "GetKeyPairByName", "CreateSSHKey", "TagInstances", "WriteFile"} :
          Cardinality(CallsOf(op)) <= 1
    /\ Cardinality(CreatesOf("master")) <= 1
    /\ Cardinality(CreatesOf("node")) <= 1
    /\ \A step \in {"bootstrap", "cni", "export"} :
          Cardinality({ i \in 1..Len(remote) : remote[i].step = step }) <= 1
    /\ \A i, j \in 1..Len(Joins) : Joins[i].host = Joins[j].host => i = j
    /\ \A i \in 1..Len(calls) :
          ~calls[i].ok
             => /\ \A j \in (i + 1)..Len(calls) : calls[j].op = "CreateInstances"
                /\ calls[i].op /= "CreateInstances"
                      => i = Len(calls) /\ pc = "done" /\ result.status = "error"
                /\ calls[i].op \notin {"CreateInstances", "WriteFile"}
                      => remote = <<>>
                /\ pc = "done" => result.status = "error"
    /\ \A i \in 1..Len(remote) :
          ~remote[i].ok
             => /\ i = Len(remote)
                /\ CallsOf("WriteFile") = {}
                /\ pc = "done"
                /\ result.status = "error"

\* C16 witness: a run that created its tag and its key, provisioned, tagged,
\* bootstrapped, joined three nodes and read the credential has ended on the
\* failed write of the local file.
NothingRetriedWitness ==
    /\ CallsOf("CreateTag") /= {}
    /\ CallsOf("CreateSSHKey") /= {}
    /\ Len(Joins) = 3
    /\ \E i \in CallsOf("WriteFile") : ~calls[i].ok
    /\ pc = "done"

\* The IDs of a sequence of instances.
IDsOf(instances) ==
    { instances[i].ID : i \in 1..Len(instances) }

\* Both CreateInstances calls have returned and exactly one of them failed.
ExactlyOneProvisioned ==
    \E i \in CreatesOf("master"), j \in CreatesOf("node") : calls[i].ok /= calls[j].ok

\* C17: when exactly one of the two CreateInstances calls succeeded, the run
\* can only end with an error, the cloud holds exactly the instances that
\* call created (none was deleted), none of them carries a tag and
\* TagInstances is never called.
NoRollbackOnPartialFailure ==
    ExactlyOneProvisioned
        => /\ pc \in {"wait", "done"}
           /\ pc = "done" => result.status = "error"
           /\ \A i \in CreatesOf("master") :
                 calls[i].ok => ~master.nil /\ cloud = {master.ID}
           /\ \A j \in CreatesOf("node") :
                 calls[j].ok => Len(instN) = opt.NodeCount /\ cloud = IDsOf(instN)
           /\ tagged = {}
           /\ CallsOf("TagInstances") = {}
           /\ remote = <<>>

\* C17 witness: the run has failed after the master call failed and the node
\* call created three instances, which are still there.
NoRollbackOnPartialFailureWitness ==
    /\ ExactlyOneProvisioned
    /\ pc = "done"
    /\ \E i \in CreatesOf("master") : ~calls[i].ok
    /\ Cardinality(cloud) = 3

\* prepareSSHKey has been left: the run is past the key stage or has ended.
KeyStageLeft ==
    pc \notin {"validate", "init", "getTag", "createTag", "readKey", "getKey", "createKey"}

\* The lookup of the well-known key name returned a key ID.
KeyLookupHit ==
    \E i \in CallsOf("GetKeyPairByName") : calls[i].ok /\ calls[i].ret /= ""

\* C18: the key is looked up only when UseExistKey is set; a lookup that
\* returned a non-empty ID gives the key ID of the run and CreateSSHKey is
\* not called; otherwise, once the local public key was read and the lookup
\* (if any) returned an empty ID, CreateSSHKey is called exactly once after
\* them; a failed read of the public key or a failed lookup ends the run
\* with an error, with no CreateSSHKey and no CreateInstances call.
KeyPreparation ==
    /\ Cardinality(CallsOf("CreateSSHKey")) <= 1
    /\ CallsOf("GetKeyPairByName") /= {} => opt.UseExistKey
    /\ \A i \in CallsOf("GetKeyPairByName") :
          calls[i].ok /\ calls[i].ret /= ""
             => /\ keyid = calls[i].ret
                /\ CallsOf("CreateSSHKey") = {}
    /\ \A i \in CallsOf("ReadFile") :
          (/\ calls[i].ok
           /\ KeyStageLeft
           /\ ~KeyLookupHit
           /\ \A j \in CallsOf("GetKeyPairByName") : calls[j].ok)
             => /\ Cardinality(CallsOf("CreateSSHKey")) = 1
                /\ opt.UseExistKey => CallsOf("GetKeyPairByName") /= {}
                /\ \A k \in CallsOf("CreateSSHKey") :
                      /\ k > i
                      /\ \A j \in CallsOf("GetKeyPairByName") : j < k
                      /\ calls[k].ok /\ pc /= "done" => keyid = calls[k].ret
    /\ \A i \in CallsOf("ReadFile") \cup CallsOf("GetKeyPairByName") :
          ~calls[i].ok
             => /\ i = Len(calls)
                /\ pc = "done"
                /\ result.status = "error"
                /\ CallsOf("CreateSSHKey") = {}
                /\ CallsOf("CreateInstances") = {}
                /\ cloud = {}

\* C18 witness: with UseExistKey set the lookup returned an empty ID, the
\* key was created and the instances were provisioned with it.
KeyPreparationWitness ==
    /\ opt.UseExistKey
    /\ \E i \in CallsOf("GetKeyPairByName") : calls[i].ok /\ calls[i].ret = ""
    /\ \E k \in CallsOf("CreateSSHKey") : calls[k].ok
    /\ \E c \in CreatesOf("master") : calls[c].arg.SSHKeyID = "kp-new"

\* The run is at a step that reads master.IP, or has run one.
MasterIsRead ==
    \/ pc = "bootstrap" /\ generateKubeadmInitCmd(NetworkOption, opt.KubernetesVersion).err = ""
    \/ pc \in {"cni", "export"}
    \/ remote /= <<>>

\* C19: whenever bootstrapMaster, applyCNI or the credential export reads
\* the master, master has been set from a successful CreateInstances call
\* for the master, whose instance exists; every such command went to the
\* master's IP and the run never ends in a nil dereference.
MasterSetWhenRead ==
    /\ MasterIsRead
          => /\ ~master.nil
             /\ \E i \in CreatesOf("master") : calls[i].ok
             /\ master.ID \in cloud
             /\ pcM = "done"
             /\ \A i \in 1..Len(remote) :
                   remote[i].step \in {"bootstrap", "cni", "export"}
                      => remote[i].host = master.IP
    /\ result /= Panicked("nil pointer dereference")

\* C19 witness: the credential export is about to read master.IP after the
\* bootstrap and the CNI apply were run on it, the node goroutine having
\* called CreateInstances before the master goroutine did.
MasterSetWhenReadWitness ==
    /\ pc = "export"
    /\ Len(remote) >= 2
    /\ \E i \in CreatesOf("master"), j \in CreatesOf("node") : j < i

\* The goroutines that were started and have not yet called wg.Done().
Unsignalled ==
    Cardinality({ g \in {pcM, pcN} : g \notin {"idle", "done"} })
        + (IF pcM = pcN /\ pcM \notin {"idle", "done"} THEN 1 ELSE 0)

\* The wait group counts the started goroutines that have not signalled, so
\* each goroutine signals once on each of its paths; the barrier is released
\* only after both have signalled, and it is open once they have; a run that
\* has not ended can take a step.
BarrierProtocol ==
    /\ wg = Unsignalled
    /\ BarrierReleased => pcM = "done" /\ pcN = "done" /\ wg = 0
    /\ (pc = "wait" /\ pcM = "done" /\ pcN = "done") => ENABLED Wait
    /\ pc /= "done" => ENABLED Next

\* C20: each provisioning goroutine signals completion exactly once, the
\* barrier is released after both have signalled and never before, the run
\* always goes on to its end, and it ends with either success or an error.
BarrierReleasedAndRunEnds ==
    /\ BarrierProtocol
    /\ pc = "done" => result.status \in {"ok", "error"}

====
